---- MODULE Spec2Model ----
(***************************************************************************)
(* A model of contextmenu.js: the menu definition normalizer, the          *)
(* per-element association (element.ctxMenu), the menu builder, the        *)
(* open/close lifecycle with its deferred positioning tick, and the        *)
(* public API (attach, display, enable, disable, close, isOpen).           *)
(*                                                                         *)
(* JavaScript objects are modelled by identity.  A normalized item object  *)
(* is named <<g, key>>: g is the group of objects one normalizeMenu call   *)
(* allocates (group 0 holds the option records the caller wrote in the     *)
(* menu literal).  The config object an attach/display call builds is      *)
(* named by the same g.  A menu container is named by a number.  Objects   *)
(* nothing refers to any more are dropped from the state and their names   *)
(* are reused (garbage collection), which keeps the state space finite.    *)
(***************************************************************************)
EXTENDS Integers, Sequences, FiniteSets, TLC

\* Bounds of the model: how many deferred ticks may be outstanding at once,
\* and how many elements with the menu's class the document may hold.
MaxPending == 2
MaxContainers == 3

None == "none"

\* The document: two independent trigger elements and a child of the first.
ElemOrder == <<"e1", "e2", "c1">>
Elems == {ElemOrder[i] : i \in 1..Len(ElemOrder)}
Parent(x) == IF x = "c1" THEN "e1" ELSE None

\* The keys of the menu literal, in insertion order.
KeyOrder == <<"k1", "k2">>
Keys == {KeyOrder[i] : i \in 1..Len(KeyOrder)}
\* A key no menu has (for enable/disable with an unknown key).
UnknownKey == "kX"

\* What a selector can resolve to (getElements returns a list).
Selectors == {<<>>, <<"e1">>, <<"e2">>, <<"e1", "e2">>}

\* The callbacks a caller can write.  fPlain only records that it ran;
\* fOpen calls ContextMenu.display(e2, menu, {data: "d2"}) synchronously from
\* onSelect.
CallerFns == {"fPlain", "fOpen"}
\* function() {} of itemDefaults (line 461) and the library's onSelect (400).
NoopFn == "noop"
DefaultOnSelect == "onSelect"
ReentrantTarget == "e2"

\* Class names (lines 105-119).
menuClassName == "context-menu"
itemClassName == "context-menu-item"
itemClassNameDisabled == "context-menu-item-disabled"

\* The three global dismissal listeners.
DismissEvents == {"click", "resize", "scroll"}

EmptyObj == [f \in {} |-> TRUE]

\* conf with "click" as the default position.
confClick ==
    [event |-> "click", position |-> "click", horizontalOffset |-> 0,
     verticalOffset |-> 0, data |-> "d0"]

\* conf (lines 78-84).  data is one shared object, named "d0".
conf ==
    [event |-> "click", position |-> "bottom", horizontalOffset |-> 0,
     verticalOffset |-> 0, data |-> "d0"]

\* The options a caller passes to attach: none, or a data payload.
OptionSets == {EmptyObj, [data |-> "d1"]}

\* The options the lifecycle's attach and display calls pass: a data
\* payload each, by which a config that display built is recognized.
AttachOptions == [data |-> "d1"]
DisplayOptions == [data |-> "d2"]

\* extend(obj, source): every property of source is assigned onto obj.
extend(obj, source) ==
    [f \in (DOMAIN obj) \cup (DOMAIN source) |->
        IF f \in DOMAIN source THEN source[f] ELSE obj[f]]

\* What getBoundingClientRect and document.body measure when a deferred
\* tick runs: the target's box, the menu's box and the viewport.
Box(l, t, w, h) == [left |-> l, top |-> t, width |-> w, height |-> h]
Measure(targetBox, mw, mh, cw, ch) ==
    [targetBox |-> targetBox,
     menuBox |-> [width |-> mw, height |-> mh],
     body |-> [clientWidth |-> cw, clientHeight |-> ch]]

\* A target in the middle of a large viewport, and one near its right edge.
MidMeasure == Measure(Box(100, 50, 80, 20), 60, 40, 1000, 800)
EdgeMeasure == Measure(Box(970, 50, 80, 20), 60, 40, 1000, 800)

\* Small measurements: a viewport of 4 by 4, a target of 1 by 1 or 2 by 1
\* that may lie partly outside it, a menu that in each dimension fits with
\* room to spare, fills the viewport or is larger than it.
SmallMeasures ==
    {Measure(Box(l, t, w, 1), mw, mh, 4, 4) :
        l \in {-1, 1, 3}, t \in {-1, 1, 3}, w \in {1, 2},
        mw \in {2, 4, 5}, mh \in {2, 4, 5}}

Measures == SmallMeasures \cup {MidMeasure, EdgeMeasure}

\* Where the pointer is when a trigger event is dispatched: near a corner
\* of the small viewport, or on the top-left corner of the target in the
\* large one.
Pointer(x, y) == [clientX |-> x, clientY |-> y]
Pointers == {Pointer(x, y) : x \in {0, 3}, y \in {0, 3}}
MidPointer == Pointer(100, 50)

\* The anchor modes a caller can pass: the five documented ones, one that
\* is not recognized, and a falsy one.
Positions == {"bottom", "top", "right", "left", "click", "center", ""}
Offsets == {-1, 0, 1}

\* The placement options a caller passes to attach/display: offsets, with
\* or without a position.
PlaceOptions ==
    {extend(posn, [horizontalOffset |-> h, verticalOffset |-> v]) :
        posn \in {EmptyObj} \cup {[position |-> q] : q \in Positions},
        h \in Offsets, v \in Offsets}

\* style.left and style.top of a container before it is positioned.
NoPx == <<0, "">>

\* No box (for the record of an operation that measures none).
NoBox == Box(0, 0, 0, 0)

\* No event (for the record of an operation that handles none).
NoEvent == [target |-> None, clientX |-> 0, clientY |-> 0]

\* itemDefaults of normalizeMenu (lines 457-464).
itemDefaults ==
    [type |-> "item", enabled |-> TRUE, label |-> "", onSelect |-> NoopFn,
     icon |-> "", title |-> ""]

\* A value of the menu literal: falsy, a callback, or a reference to an
\* object <<grp, key>> of the heap.
Falsy == [tag |-> "falsy", fn |-> None, grp |-> 0]
Callback(f) == [tag |-> "fn", fn |-> f, grp |-> 0]
ObjRef(g) == [tag |-> "obj", fn |-> None, grp |-> g]

\* isFunction (lines 132-134) on a value of the menu literal.
isFunction(v) == v.tag = "fn"

\* The partial option records a caller can write.
RawRecords ==
    {extend(extend(extend(en, lb), os), tt) :
        en \in {EmptyObj, [enabled |-> TRUE], [enabled |-> FALSE]},
        lb \in {EmptyObj, [label |-> "L"]},
        os \in {EmptyObj} \cup {[onSelect |-> f] : f \in CallerFns},
        tt \in {EmptyObj, [title |-> "T"]}}

VARIABLES
    srcMenu,     \* the caller's menu object M: key -> value
    origMenu,    \* M as the caller wrote it (never changes; for comparison)
    heap,        \* item objects: <<g, key>> -> record of its properties
    cfgs,        \* config objects built by attach/display: g -> record
    ctxMenu,     \* element.ctxMenu: the element's config, 0 when undefined
    bound,       \* element has onContextMenu registered as a listener
    isOpen,      \* the module's isOpen flag (line 90)
    target,      \* the module's target variable (line 98)
    doc,         \* the menu containers in the document, in document order
    menus,       \* container objects: id -> record (also detached ones)
    listeners,   \* window listeners that are closeContextMenu
    pending,     \* setTimeout callbacks not yet run, oldest first
    last         \* the operation that produced this state and what it saw

vars ==
    <<srcMenu, origMenu, heap, cfgs, ctxMenu, bound, isOpen, target, doc,
      menus, listeners, pending, last>>

\* The program state as one record, so that handlers compose as the code's
\* calls do.  err is the exception the running operation has thrown, calls
\* the onSelect invocations it has made, evt and geo the event and the
\* measurements a deferred tick has positioned its menu with, opts and box
\* the options an attach or display call was given and the box display
\* measured.
Cur ==
    [srcMenu |-> srcMenu, heap |-> heap, cfgs |-> cfgs, ctxMenu |-> ctxMenu,
     bound |-> bound, isOpen |-> isOpen, target |-> target, doc |-> doc,
     menus |-> menus, listeners |-> listeners, pending |-> pending,
     err |-> None, calls |-> <<>>, obsOpen |-> FALSE, obsDoc |-> <<>>,
     evt |-> NoEvent, geo |-> MidMeasure, opts |-> EmptyObj, box |-> NoBox]

Range(seq) == {seq[i] : i \in 1..Len(seq)}

\* ---------------------------------------------------------------- objects

\* A name for a new group of item objects / a new config object.
NewGroup(s) ==
    LET used == (DOMAIN s.cfgs) \cup {id[1] : id \in DOMAIN s.heap}
    IN  CHOOSE n \in 1..(Cardinality(used) + 1) :
            /\ n \notin used
            /\ \A m \in 1..(n - 1) : m \in used

\* A name for a new container object.
NewMenu(s) ==
    CHOOSE n \in 1..(Cardinality(DOMAIN s.menus) + 1) :
        /\ n \notin DOMAIN s.menus
        /\ \A m \in 1..(n - 1) : m \in DOMAIN s.menus

\* The object a value of a menu refers to.
Deref(h, key, v) == h[<<v.grp, key>>]

\* Objects still referred to: configs by an element, item objects by a live
\* config or by the caller's menu object (group 0: the caller's literals),
\* containers by the document or by a pending tick.  The groups that stay
\* are renamed 1, 2, ... in the order the elements and then M refer to them,
\* so that two states differing only in the names of objects are one state.
Collect(s) ==
    LET refs == [i \in 1..(Len(ElemOrder) + Len(KeyOrder)) |->
                    IF i <= Len(ElemOrder)
                    THEN s.ctxMenu[ElemOrder[i]]
                    ELSE s.srcMenu[KeyOrder[i - Len(ElemOrder)]].grp]
        firsts == {i \in DOMAIN refs :
                      refs[i] # 0 /\ \A j \in 1..(i - 1) : refs[j] # refs[i]}
        rename(g) ==
            IF g = 0 THEN 0
            ELSE LET i == CHOOSE x \in firsts : refs[x] = g
                 IN  Cardinality({j \in firsts : j <= i})
        old(n) == refs[CHOOSE i \in firsts : Cardinality({j \in firsts : j <= i}) = n]
        liveCfg == {s.ctxMenu[e] : e \in Elems} \ {0}
        liveGrp == {0} \cup {refs[i] : i \in firsts}
        liveMenu == Range(s.doc) \cup {s.pending[i].menu : i \in 1..Len(s.pending)}
        renameMenu(menu) == [k \in DOMAIN menu |-> [menu[k] EXCEPT !.grp = rename(@)]]
    IN  [s EXCEPT
            !.ctxMenu = [e \in Elems |-> rename(s.ctxMenu[e])],
            !.srcMenu = renameMenu(s.srcMenu),
            !.cfgs = [n \in {rename(g) : g \in liveCfg} |->
                        [s.cfgs[old(n)] EXCEPT !.menu = renameMenu(@)]],
            !.heap = [id \in {<<rename(x[1]), x[2]>> :
                                x \in {y \in DOMAIN s.heap : y[1] \in liveGrp}} |->
                        s.heap[<<IF id[1] = 0 THEN 0 ELSE old(id[1]), id[2]>>]],
            !.menus = [m \in liveMenu |-> s.menus[m]]]

\* ------------------------------------------------------------ normalizer

\* normalizeEntry with extend's arguments exchanged for an option record:
\* the defaults overwrite what the record supplies.
normalizeEntryDefaultsWin(h, idx, v) ==
    LET dflt == extend(EmptyObj, itemDefaults)
    IN  IF v.tag = "falsy"
        THEN extend(dflt, [label |-> idx])
        ELSE IF isFunction(v)
             THEN extend(dflt, [label |-> idx, onSelect |-> v.fn])
             ELSE extend(Deref(h, idx, v), dflt)

\* normalizeEntry making a disabled item of a falsy value.
normalizeEntryFalsyDisabled(h, idx, v) ==
    LET dflt == extend(EmptyObj, itemDefaults)
    IN  IF v.tag = "falsy"
        THEN extend(dflt, [label |-> idx, enabled |-> FALSE])
        ELSE IF isFunction(v)
             THEN extend(dflt, [label |-> idx, onSelect |-> v.fn])
             ELSE extend(dflt, Deref(h, idx, v))

\* One iteration of the loop of normalizeMenu (lines 467-483): the object
\* that replaces menu[idx].
normalizeEntry(h, idx, v) ==
    LET dflt == extend(EmptyObj, itemDefaults)
    IN  IF v.tag = "falsy"
        THEN extend(dflt, [label |-> idx])
        ELSE IF isFunction(v)
             THEN extend(dflt, [label |-> idx, onSelect |-> v.fn])
             ELSE extend(dflt, Deref(h, idx, v))

\* normalizeMenu(menu) (lines 455-486): every menu[idx] is replaced by a
\* new object of group g.  Returns the heap and the (same) menu object's
\* new content.
normalizeMenu(h, menu, g) ==
    [heap |->
        [id \in (DOMAIN h) \cup {<<g, k>> : k \in DOMAIN menu} |->
            IF id[1] = g THEN normalizeEntry(h, id[2], menu[id[2]]) ELSE h[id]],
     menu |-> [k \in DOMAIN menu |-> ObjRef(g)]]

\* The object attach and display associate with an element (lines 510-512,
\* 551-553): {menu: extend({}, menu)} extended by conf, then by options.
makeConfig(menu, options) ==
    extend(extend([menu |-> extend(EmptyObj, menu)], conf), options)

\* --------------------------------------------------------------- closing

\* The loop of closeContextMenu (lines 419-421) over the live collection
\* getElementsByClassName returns: removing elements[idx] from the document
\* removes it from the collection too, and idx still advances.
RECURSIVE removeLoop(_, _)
removeLoop(elements, idx) ==
    IF idx >= Len(elements)
    THEN elements
    ELSE removeLoop(
            [i \in 1..(Len(elements) - 1) |->
                IF i <= idx THEN elements[i] ELSE elements[i + 1]],
            idx + 1)

\* closeContextMenu without the removal loop.
closeContextMenuNoRemove(s) ==
    [s EXCEPT !.listeners = {}, !.isOpen = FALSE]

\* closeContextMenu without the assignment to isOpen.
closeContextMenuNoFlag(s) ==
    [s EXCEPT !.listeners = {}, !.doc = removeLoop(s.doc, 0)]

\* closeContextMenu (lines 410-423).
closeContextMenu(s) ==
    [s EXCEPT !.listeners = {}, !.doc = removeLoop(s.doc, 0), !.isOpen = FALSE]

\* ---------------------------------------------------------------- builder

\* createItem with the click listener added whether or not the item is
\* enabled.
createItemAlwaysClick(key, value) ==
    LET enabled == IF "enabled" \in DOMAIN value THEN value.enabled ELSE FALSE
        label == IF "label" \in DOMAIN value THEN value.label ELSE ""
        title == IF "title" \in DOMAIN value THEN value.title ELSE ""
    IN  [key |-> key,
         enabled |-> enabled,
         className |-> IF enabled THEN itemClassName ELSE itemClassNameDisabled,
         innerHTML |-> IF label # "" THEN label ELSE key,
         onSelect |->
            IF "onSelect" \in DOMAIN value THEN value.onSelect ELSE DefaultOnSelect,
         click |-> TRUE,
         title |-> title]

\* One iteration of the loop of createContextMenu (lines 264-299): the row
\* built for key from value, the item object of that key.
createItem(key, value) ==
    LET enabled == IF "enabled" \in DOMAIN value THEN value.enabled ELSE FALSE
        label == IF "label" \in DOMAIN value THEN value.label ELSE ""
        title == IF "title" \in DOMAIN value THEN value.title ELSE ""
    IN  [key |-> key,
         enabled |-> enabled,
         className |-> IF enabled THEN itemClassName ELSE itemClassNameDisabled,
         innerHTML |-> IF label # "" THEN label ELSE key,
         onSelect |->
            IF enabled
            THEN (IF "onSelect" \in DOMAIN value THEN value.onSelect
                  ELSE DefaultOnSelect)
            ELSE None,
         click |-> enabled,
         title |-> title]

\* createContextMenu(target) (lines 254-302): a hidden container with one
\* row per key of target.ctxMenu.menu, in insertion order.
createContextMenu(s, t) ==
    LET menu == s.cfgs[s.ctxMenu[t]].menu
        keys == SelectSeq(KeyOrder, LAMBDA k : k \in DOMAIN menu)
    IN  [className |-> menuClassName,
         visibility |-> "hidden",
         positioned |-> FALSE,
         left |-> NoPx,
         top |-> NoPx,
         target |-> t,
         rows |-> [i \in 1..Len(keys) |-> createItem(keys[i], Deref(s.heap, keys[i], menu[keys[i]]))]]

\* onContextMenu(e) (lines 217-244).  onContextMenuStart is its first two
\* statements (lines 221-222).  The timeout callback is queued with the menu
\* and the event it closes over.
onContextMenuStart(s, e) == closeContextMenu([s EXCEPT !.target = e.target])

\* onContextMenu without the assignment isOpen = true.
onContextMenuNoFlag(s, e) ==
    LET s1 == onContextMenuStart(s, e)
    IN  IF s1.ctxMenu[e.target] # 0
        THEN LET m == NewMenu(s1)
             IN  [s1 EXCEPT
                    !.menus = [x \in (DOMAIN s1.menus) \cup {m} |->
                                  IF x = m THEN createContextMenu(s1, e.target)
                                  ELSE s1.menus[x]],
                    !.doc = Append(s1.doc, m),
                    !.pending = Append(s1.pending, [menu |-> m, e |-> e])]
        ELSE s1

onContextMenu(s, e) ==
    LET s1 == onContextMenuStart(s, e)
    IN  IF s1.ctxMenu[e.target] # 0
        THEN LET m == NewMenu(s1)
             IN  [s1 EXCEPT
                    !.menus = [x \in (DOMAIN s1.menus) \cup {m} |->
                                  IF x = m THEN createContextMenu(s1, e.target)
                                  ELSE s1.menus[x]],
                    !.doc = Append(s1.doc, m),
                    !.isOpen = TRUE,
                    !.pending = Append(s1.pending, [menu |-> m, e |-> e])]
        ELSE s1

\* ---------------------------------------------------------------- placing

\* getBoundingClientRect().bottom of a box.
boxBottom(box) == box.top + box.height

\* The anchor mode positionContextMenu uses (lines 320-324): "click" unless
\* the config has a truthy position.
anchorMode(cfg) == IF cfg.position # "" THEN cfg.position ELSE "click"

\* anchorPosition with the "right" branch leaving out the target's width.
anchorPositionRightNoWidth(e, cfg, geo) ==
    LET position == anchorMode(cfg)
        targetBox == geo.targetBox
        menuBox == geo.menuBox
    IN  IF position = "bottom"
        THEN [left |-> targetBox.left + cfg.horizontalOffset,
              top |-> boxBottom(targetBox) + cfg.verticalOffset]
        ELSE IF position = "top"
        THEN [left |-> targetBox.left + cfg.horizontalOffset,
              top |-> targetBox.top - menuBox.height + cfg.verticalOffset]
        ELSE IF position = "right"
        THEN [left |-> targetBox.left + cfg.horizontalOffset,
              top |-> targetBox.top + cfg.verticalOffset]
        ELSE IF position = "left"
        THEN [left |-> targetBox.left - menuBox.width + cfg.horizontalOffset,
              top |-> targetBox.top + cfg.verticalOffset]
        ELSE [left |-> e.clientX + cfg.horizontalOffset,
              top |-> e.clientY + cfg.verticalOffset]

\* The position before the off-screen checks (lines 326-346).
anchorPosition(e, cfg, geo) ==
    LET position == anchorMode(cfg)
        targetBox == geo.targetBox
        menuBox == geo.menuBox
    IN  IF position = "bottom"
        THEN [left |-> targetBox.left + cfg.horizontalOffset,
              top |-> boxBottom(targetBox) + cfg.verticalOffset]
        ELSE IF position = "top"
        THEN [left |-> targetBox.left + cfg.horizontalOffset,
              top |-> targetBox.top - menuBox.height + cfg.verticalOffset]
        ELSE IF position = "right"
        THEN [left |-> targetBox.left + targetBox.width + cfg.horizontalOffset,
              top |-> targetBox.top + cfg.verticalOffset]
        ELSE IF position = "left"
        THEN [left |-> targetBox.left - menuBox.width + cfg.horizontalOffset,
              top |-> targetBox.top + cfg.verticalOffset]
        ELSE [left |-> e.clientX + cfg.horizontalOffset,
              top |-> e.clientY + cfg.verticalOffset]

\* clampLeading snapping to 0 whatever the sign of the offset.
clampLeadingZero(edge, offset) ==
    IF edge < 0 THEN 0 ELSE edge

\* "Too far to the left?" / "Too far up?" (lines 351-366).
clampLeading(edge, offset) ==
    IF edge < 0 THEN (IF offset >= 0 THEN offset ELSE 0) ELSE edge

\* "Too far to the right?" / "Too far to the bottom?" (lines 369-384).
clampTrailing(edge, size, client, offset) ==
    IF edge + size > client
    THEN (IF offset >= 0 THEN client - size ELSE client - size + offset)
    ELSE edge

\* The off-screen checks (lines 348-384), in the code's order.
clampPosition(pos, cfg, geo) ==
    [left |-> clampTrailing(clampLeading(pos.left, cfg.horizontalOffset),
                            geo.menuBox.width, geo.body.clientWidth,
                            cfg.horizontalOffset),
     top |-> clampTrailing(clampLeading(pos.top, cfg.verticalOffset),
                           geo.menuBox.height, geo.body.clientHeight,
                           cfg.verticalOffset)]

\* left + "px" (lines 387-388).
px(n) == <<n, "px">>

\* positionContextMenu(e, target, menu) (lines 313-389) for a target that
\* has the config cfg: the style it writes to the menu.
positionContextMenu(e, cfg, geo) ==
    LET pos == clampPosition(anchorPosition(e, cfg, geo), cfg, geo)
    IN  [left |-> px(pos.left), top |-> px(pos.top)]

\* timeoutCallback without the assignment to menu.style.visibility.
timeoutCallbackNoReveal(s, p, geo) ==
    LET s1 == [s EXCEPT !.listeners = DismissEvents,
                        !.evt = p.e,
                        !.geo = geo]
    IN  IF s1.ctxMenu[s1.target] = 0
        THEN [s1 EXCEPT !.err = "TypeError"]
        ELSE LET style == positionContextMenu(p.e, s1.cfgs[s1.ctxMenu[s1.target]], geo)
             IN  [s1 EXCEPT !.menus[p.menu].positioned = TRUE,
                            !.menus[p.menu].left = style.left,
                            !.menus[p.menu].top = style.top]

\* The callback of setTimeout (lines 233-242): registers the listeners,
\* reveals the menu, then positionContextMenu(e, target, menu) with the
\* module's target as it is now and the boxes as they measure now (geo).
\* positionContextMenu reads target.ctxMenu.horizontalOffset (lines
\* 328-345): a TypeError when target.ctxMenu is undefined.
timeoutCallback(s, p, geo) ==
    LET s1 == [s EXCEPT !.listeners = DismissEvents,
                        !.menus[p.menu].visibility = "visible",
                        !.evt = p.e,
                        !.geo = geo]
    IN  IF s1.ctxMenu[s1.target] = 0
        THEN [s1 EXCEPT !.err = "TypeError"]
        ELSE LET style == positionContextMenu(p.e, s1.cfgs[s1.ctxMenu[s1.target]], geo)
             IN  [s1 EXCEPT !.menus[p.menu].positioned = TRUE,
                            !.menus[p.menu].left = style.left,
                            !.menus[p.menu].top = style.top]

\* ------------------------------------------------------------ public API

\* The loop of attach (lines 518-521).
RECURSIVE attachLoop(_, _, _, _)
attachLoop(s, elements, idx, g) ==
    IF idx > Len(elements)
    THEN s
    ELSE attachLoop(
            [s EXCEPT !.ctxMenu[elements[idx]] = g, !.bound[elements[idx]] = TRUE],
            elements, idx + 1, g)

\* ContextMenu.attach(selector, menu, options) (lines 503-522), menu being
\* the caller's object M: normalizeMenu works on M itself.
attach(s, elements, options) ==
    LET g == NewGroup(s)
        n == normalizeMenu(s.heap, s.srcMenu, g)
        obj == makeConfig(n.menu, options)
        s1 == [s EXCEPT
                !.opts = options,
                !.heap = n.heap,
                !.srcMenu = n.menu,
                !.cfgs = [x \in (DOMAIN s.cfgs) \cup {g} |->
                             IF x = g THEN obj ELSE s.cfgs[x]]]
    IN  attachLoop(s1, elements, 1, g)

\* ContextMenu.display(e, menu, options) with e an element (lines 546-553,
\* 562-574): normalizeMenu works on a copy of M, extend({}, menu).  box is
\* e.getBoundingClientRect(), the source of the simulated event's pointer.
display(s, el, options, box) ==
    LET g == NewGroup(s)
        n == normalizeMenu(s.heap, extend(EmptyObj, s.srcMenu), g)
        contextMenu == makeConfig(n.menu, options)
        s1 == [s EXCEPT
                !.opts = options,
                !.box = box,
                !.heap = n.heap,
                !.cfgs = [x \in (DOMAIN s.cfgs) \cup {g} |->
                             IF x = g THEN contextMenu ELSE s.cfgs[x]],
                !.ctxMenu[el] = g]
    IN  onContextMenu(s1, [target |-> el, clientX |-> box.left, clientY |-> box.top])

\* setEnabledState(selector, key, enabled) (lines 433-445).  An element
\* without ctxMenu makes elements[idx].ctxMenu.menu throw a TypeError, which
\* ends the loop.  (setEnabledLoopNoCheck is the loop without the
\* hasOwnProperty test: the assignment to a property of undefined throws.)
RECURSIVE setEnabledLoopNoCheck(_, _, _, _, _)
RECURSIVE setEnabledLoop(_, _, _, _, _)
setEnabledLoopNoCheck(s, elements, idx, key, enabled) ==
    IF idx > Len(elements)
    THEN s
    ELSE IF s.ctxMenu[elements[idx]] = 0
         THEN [s EXCEPT !.err = "TypeError"]
         ELSE LET menu == s.cfgs[s.ctxMenu[elements[idx]]].menu
              IN  IF key \in DOMAIN menu
                  THEN setEnabledLoopNoCheck(
                          [s EXCEPT !.heap[<<menu[key].grp, key>>].enabled = enabled],
                          elements, idx + 1, key, enabled)
                  ELSE [s EXCEPT !.err = "TypeError"]

setEnabledLoop(s, elements, idx, key, enabled) ==
    IF idx > Len(elements)
    THEN s
    ELSE IF s.ctxMenu[elements[idx]] = 0
         THEN [s EXCEPT !.err = "TypeError"]
         ELSE LET menu == s.cfgs[s.ctxMenu[elements[idx]]].menu
              IN  IF key \in DOMAIN menu
                  THEN setEnabledLoop(
                          [s EXCEPT !.heap[<<menu[key].grp, key>>].enabled = enabled],
                          elements, idx + 1, key, enabled)
                  ELSE setEnabledLoop(s, elements, idx + 1, key, enabled)

\* setEnabledState rebuilding the rows of the containers in the document
\* from the changed config.
setEnabledStateRebuild(s, elements, key, enabled) ==
    LET s1 == setEnabledLoop(s, elements, 1, key, enabled)
    IN  [s1 EXCEPT !.menus =
            [m \in DOMAIN s1.menus |->
                IF m \in Range(s1.doc) /\ s1.ctxMenu[s1.menus[m].target] # 0
                THEN [s1.menus[m] EXCEPT
                        !.rows = createContextMenu(s1, s1.menus[m].target).rows]
                ELSE s1.menus[m]]]

setEnabledState(s, elements, key, enabled) ==
    setEnabledLoop(s, elements, 1, key, enabled)

\* ------------------------------------------------------------- selection

\* What a caller's callback does when it runs.
runCallback(s, fn) ==
    IF fn = "fOpen"
    THEN display(s, ReentrantTarget, DisplayOptions, MidMeasure.targetBox)
    ELSE s

\* The row that the variable item of createContextMenu refers to when a
\* click handler runs: item is declared with var (line 267), one variable
\* for the whole function, so it holds the row the loop created last.
closureItem(menu, i) == Len(menu.rows)

\* The click listener of an enabled row (lines 288-291), for row i of
\* container m.  obsOpen and obsDoc are isOpen() and the containers in the
\* document as the callback finds them when it starts.
itemClick(s, m, i) ==
    LET menu == s.menus[m]
        row == menu.rows[i]
        call == [fn |-> row.onSelect,
                 target |-> menu.target,
                 key |-> row.key,
                 item |-> closureItem(menu, i),
                 data |-> s.cfgs[s.ctxMenu[menu.target]].data]
        s1 == [s EXCEPT !.calls = Append(@, call),
                        !.obsOpen = s.isOpen,
                        !.obsDoc = s.doc]
    IN  closeContextMenu(runCallback(s1, row.onSelect))

\* A window event of a type closeContextMenu may be registered for.
windowEvent(s, ev) == IF ev \in s.listeners THEN closeContextMenu(s) ELSE s

\* A click on row i of container m: the row's own listener, if it has one,
\* then the event bubbles to window.
clickRow(s, m, i) ==
    LET s1 == IF s.menus[m].rows[i].click THEN itemClick(s, m, i) ELSE s
    IN  windowEvent(s1, "click")

\* ---------------------------------------------------------------- actions

\* The record kept in last: the operation, its arguments, isOpen and the
\* document as the operation found them, and what the operation observed
\* (the callbacks it invoked, an exception it threw).
Done(op, els, key, menu, row, mid, s) ==
    [op |-> op, els |-> els, key |-> key, menu |-> menu, row |-> row,
     preOpen |-> isOpen, preDoc |-> doc,
     midOpen |-> mid.isOpen, midDoc |-> mid.doc,
     calls |-> s.calls, obsOpen |-> s.obsOpen, obsDoc |-> s.obsDoc,
     err |-> s.err, evt |-> s.evt, geo |-> s.geo, opts |-> s.opts,
     box |-> s.box]

\* The state the operation leaves becomes the next state.  (The bounded
\* quantifiers only name a value that is then used several times.)
Install(s, l) ==
    \E c \in {Collect(s)} :
        /\ srcMenu' = c.srcMenu
        /\ heap' = c.heap
        /\ cfgs' = c.cfgs
        /\ ctxMenu' = c.ctxMenu
        /\ bound' = c.bound
        /\ isOpen' = c.isOpen
        /\ target' = c.target
        /\ doc' = c.doc
        /\ menus' = c.menus
        /\ listeners' = c.listeners
        /\ pending' = c.pending
        /\ last' = l
        /\ UNCHANGED origMenu

\* ContextMenu.attach(selector, M, options).
Attach(sel, options) ==
    \E s \in {attach(Cur, sel, options)} :
        Install(s, Done("attach", sel, None, 0, 0, s, s))

\* ContextMenu.display(element, M, options), element measuring box.
Display(el, options, box) ==
    /\ Len(pending) < MaxPending
    /\ \E s \in {display(Cur, el, options, box)} :
        Install(s, Done("display", <<el>>, None, s.doc[Len(s.doc)], 0, s, s))

\* ContextMenu.disable(selector, key).
Disable(sel, key) ==
    \E s \in {setEnabledState(Cur, sel, key, FALSE)} :
        Install(s, Done("disable", sel, key, 0, 0, s, s))

\* ContextMenu.enable(selector, key).
Enable(sel, key) ==
    \E s \in {setEnabledState(Cur, sel, key, TRUE)} :
        Install(s, Done("enable", sel, key, 0, 0, s, s))

\* ContextMenu.close().
Close ==
    \E s \in {closeContextMenu(Cur)} :
        Install(s, Done("close", <<>>, None, 0, 0, s, s))

\* The bound trigger event is dispatched with event target t and the
\* pointer at ptr: t itself or its parent has onContextMenu registered (the
\* event bubbles).  menu is
\* the container the handler built, 0 when it built none; midOpen and
\* midDoc are isOpen and the document after the handler's first two
\* statements.
Trigger(t, ptr) ==
    /\ \/ bound[t]
       \/ Parent(t) # None /\ bound[Parent(t)]
    /\ ctxMenu[t] # 0 => Len(pending) < MaxPending
    /\ \E e \in {[target |-> t, clientX |-> ptr.clientX, clientY |-> ptr.clientY]} :
       \E s \in {onContextMenu(Cur, e)} :
        Install(s, Done("trigger", <<t>>, None,
                        IF ctxMenu[t] # 0 THEN s.doc[Len(s.doc)] ELSE 0, 0,
                        onContextMenuStart(Cur, e), s))

\* A click on row i of the container m that is in the document.
ClickRow(m, i) ==
    /\ m \in Range(doc)
    /\ i \in 1..Len(menus[m].rows)
    /\ menus[m].rows[i].onSelect = "fOpen" => Len(pending) < MaxPending
    /\ \E s \in {clickRow(Cur, m, i)} :
        Install(s, Done("clickRow", <<menus[m].target>>, menus[m].rows[i].key,
                        m, i, s, s))

\* A click elsewhere in the document, a resize or a scroll reaches window.
WindowEvent(ev) ==
    \E s \in {windowEvent(Cur, ev)} :
        Install(s, Done(ev, <<>>, None, 0, 0, s, s))

\* The oldest pending timeout fires, while the boxes measure geo.
Tick(geo) ==
    /\ pending # <<>>
    /\ \E s \in {timeoutCallback([Cur EXCEPT !.pending = Tail(pending)], Head(pending), geo)} :
        Install(s, Done("tick", <<>>, None, Head(pending).menu, 0, s, s))

\* An element with the menu's class that the library did not build: a
\* script of the page appends one to document.body.  getElementsByClassName
\* (line 412) finds it like the library's own containers.
foreignContainer ==
    [className |-> menuClassName,
     visibility |-> "visible",
     positioned |-> FALSE,
     left |-> NoPx,
     top |-> NoPx,
     target |-> None,
     rows |-> <<>>]

appendContainer(s) ==
    LET m == NewMenu(s)
    IN  [s EXCEPT
            !.menus = [x \in (DOMAIN s.menus) \cup {m} |->
                          IF x = m THEN foreignContainer ELSE s.menus[x]],
            !.doc = Append(s.doc, m)]

InsertContainer ==
    /\ Len(doc) < MaxContainers
    /\ \E s \in {appendContainer(Cur)} :
        Install(s, Done("insert", <<>>, None, s.doc[Len(s.doc)], 0, s, s))

\* An entry of the menu literal: its value and, for an option record, the
\* record the value refers to.
Entry(v, rec) == [v |-> v, rec |-> rec]

AllEntries ==
    {Entry(Falsy, EmptyObj)}
        \cup {Entry(Callback(f), EmptyObj) : f \in CallerFns}
        \cup {Entry(ObjRef(0), r) : r \in RawRecords}

\* The menus the lifecycle specification starts from: two callbacks, or a
\* callback and a disabled option record.
LifeMenus ==
    {def \in [Keys -> AllEntries] :
        /\ def["k1"] \in {Entry(Callback("fPlain"), EmptyObj),
                          Entry(Callback("fOpen"), EmptyObj)}
        /\ def["k2"] \in {Entry(Callback("fPlain"), EmptyObj),
                          Entry(ObjRef(0), [enabled |-> FALSE, label |-> "L"])}}

\* The menus the configuration specification starts from.
ConfigMenus ==
    {def \in [Keys -> AllEntries] :
        /\ def["k1"] \in {Entry(Callback("fPlain"), EmptyObj),
                          Entry(ObjRef(0), [enabled |-> FALSE])}
        /\ def["k2"] \in {Entry(Callback("fPlain"), EmptyObj),
                          Entry(Falsy, EmptyObj)}}

\* The state after the script has loaded and the caller has written M.
InitWith(defs) ==
    /\ \E def \in defs :
        /\ origMenu = def
        /\ srcMenu = [k \in Keys |-> def[k].v]
        /\ heap = [id \in {<<0, k>> : k \in {x \in Keys : def[x].v.tag = "obj"}} |->
                      def[id[2]].rec]
    /\ cfgs = [g \in {} |-> EmptyObj]
    /\ ctxMenu = [e \in Elems |-> 0]
    /\ bound = [e \in Elems |-> FALSE]
    /\ isOpen = FALSE
    /\ target = None
    /\ doc = <<>>
    /\ menus = [m \in {} |-> EmptyObj]
    /\ listeners = {}
    /\ pending = <<>>
    /\ last = Done("init", <<>>, None, 0, 0, Cur, Cur)

\* The lifecycle: attach, display, triggers, selections, dismissal events,
\* close() and deferred ticks, in any order.
Init == InitWith(LifeMenus)

Next ==
    \/ \E sel \in {<<"e1">>, <<"e1", "e2">>} : Attach(sel, AttachOptions)
    \/ \E el \in {"e2", "c1"} : Display(el, DisplayOptions, MidMeasure.targetBox)
    \/ Close
    \/ \E t \in Elems : Trigger(t, MidPointer)
    \/ \E m \in Range(doc), i \in 1..Len(KeyOrder) : ClickRow(m, i)
    \/ \E ev \in DismissEvents : WindowEvent(ev)
    \/ Tick(MidMeasure)

Spec == Init /\ [][Next]_vars

\* The configurations: attach, enable and disable in any order.
InitConfig == InitWith(ConfigMenus)

NextConfig ==
    \/ \E sel \in Selectors : Attach(sel, EmptyObj)
    \/ \E sel \in Selectors, k \in {"k1", UnknownKey} : Disable(sel, k)
    \/ \E sel \in Selectors, k \in {"k1", UnknownKey} : Enable(sel, k)

SpecConfig == InitConfig /\ [][NextConfig]_vars

\* The normalizer and the builder on every menu a caller can write: one
\* attach, then one trigger.
InitNorm == InitWith([Keys -> AllEntries])

NextNorm ==
    \/ ctxMenu["e1"] = 0 /\ Attach(<<"e1">>, EmptyObj)
    \/ doc = <<>> /\ Trigger("e1", MidPointer)

SpecNorm == InitNorm /\ [][NextNorm]_vars

\* The placement: one attach and trigger, or one display, with every
\* placement option, then the deferred tick under every measurement.
PlaceMenus ==
    {def \in [Keys -> AllEntries] :
        \A k \in Keys : def[k] = Entry(Callback("fPlain"), EmptyObj)}

InitPlace == InitWith(PlaceMenus)

NextPlace ==
    \/ /\ ctxMenu["e1"] = 0 /\ ctxMenu["e2"] = 0
       /\ \E o \in PlaceOptions : Attach(<<"e1">>, o)
    \/ /\ doc = <<>> /\ pending = <<>>
       /\ \E ptr \in Pointers : Trigger("e1", ptr)
    \/ /\ ctxMenu["e1"] = 0 /\ ctxMenu["e2"] = 0
       /\ \E o \in PlaceOptions, ptr \in Pointers :
            Display("e2", o, Box(ptr.clientX, ptr.clientY, 1, 1))
    \/ \E geo \in Measures : Tick(geo)

SpecPlace == InitPlace /\ [][NextPlace]_vars

\* Enabling and disabling around an open menu: one attach, then triggers,
\* ticks, selections, close() and enable/disable in any order.
InitToggle == InitWith(ConfigMenus)

NextToggle ==
    \/ ctxMenu["e1"] = 0 /\ \E o \in OptionSets : Attach(<<"e1">>, o)
    \/ \E k \in Keys : Disable(<<"e1">>, k)
    \/ \E k \in Keys : Enable(<<"e1">>, k)
    \/ Trigger("e1", MidPointer)
    \/ Tick(MidMeasure)
    \/ \E m \in Range(doc), i \in 1..Len(KeyOrder) : ClickRow(m, i)
    \/ Close

SpecToggle == InitToggle /\ [][NextToggle]_vars

\* Closing a document that holds any number of elements with the menu's
\* class: the library's own container and those the page has inserted.
InitClose == InitWith(PlaceMenus)

NextClose ==
    \/ InsertContainer
    \/ ctxMenu["e1"] = 0 /\ Attach(<<"e1">>, AttachOptions)
    \/ Len(doc) < MaxContainers /\ Trigger("e1", MidPointer)
    \/ Tick(MidMeasure)
    \/ \E ev \in DismissEvents : WindowEvent(ev)
    \/ Close

SpecClose == InitClose /\ [][NextClose]_vars

\* The reveal: one attach, then triggers (also on the child that has no
\* config), display, close() and dismissal events in any order, with the
\* timer running every deferred tick it has been given: setTimeout(..., 1)
\* fires its callback once the current handler has returned.
InitReveal == InitWith(PlaceMenus)

NextReveal ==
    \/ ctxMenu["e1"] = 0 /\ Attach(<<"e1">>, AttachOptions)
    \/ \E t \in {"e1", "c1"} : Trigger(t, MidPointer)
    \/ Display("e2", DisplayOptions, MidMeasure.targetBox)
    \/ Tick(MidMeasure)
    \/ \E ev \in DismissEvents : WindowEvent(ev)
    \/ Close

SpecReveal == InitReveal /\ [][NextReveal]_vars /\ WF_vars(Tick(MidMeasure))

\* ================================================================ claims

\* The row a click was on, and the container it belongs to, in the state
\* the click found.
ClickedMenu == menus[last'.menu]
ClickedRow == menus[last'.menu].rows[last'.row]

\* C1: at most one menu container is in the document in every reachable
\* state; and when a trigger (a trigger event, or display) that opens a
\* menu is handled while a menu is open, exactly one container is in the
\* document afterwards and it is the one the handler has just built: it was
\* not in the document before, it is hidden, and it belongs to the event
\* target.
C1_AtMostOneContainer ==
    /\ Len(doc) <= 1
    /\ (last.op \in {"trigger", "display"} /\ last.preOpen /\ last.menu # 0) =>
        /\ doc = <<last.menu>>
        /\ last.menu \notin Range(last.preDoc)
        /\ menus[last.menu].visibility = "hidden"
        /\ menus[last.menu].target = last.els[1]

C1_Witness ==
    /\ last.op = "trigger"
    /\ last.preOpen
    /\ Len(last.preDoc) = 1
    /\ last.menu # 0
    /\ doc = <<last.menu>>

\* C2: a click on an enabled row invokes the row's onSelect exactly once,
\* with the element that opened the menu, the row's key, the row that was
\* clicked and the data of the element's config, and leaves the controller
\* Closed.
C2_SelectTuple ==
    [][(last'.op = "clickRow" /\ ClickedRow.enabled) =>
        /\ last'.calls =
            <<[fn |-> ClickedRow.onSelect,
               target |-> ClickedMenu.target,
               key |-> ClickedRow.key,
               item |-> last'.row,
               data |-> cfgs[ctxMenu[ClickedMenu.target]].data]>>
        /\ ~isOpen']_vars

\* C3 as claimed: a click on a disabled row of an open, revealed menu
\* invokes no callback and changes nothing.
C3_DisabledClickInert ==
    [][(last'.op = "clickRow" /\ ~ClickedRow.enabled /\ isOpen
            /\ ClickedMenu.visibility = "visible") =>
        /\ last'.calls = <<>>
        /\ doc' = doc
        /\ isOpen'
        /\ listeners' = listeners]_vars

\* C3 as amended: a click on a disabled row of an open, revealed menu
\* invokes no callback; the click reaches the window's click listener,
\* which closes the menu: the container is removed, isOpen is false and no
\* dismissal listener stays registered.  Before the menu is revealed, when
\* no listener is registered yet, the click changes nothing.
C3_DisabledClickCloses ==
    [][(last'.op = "clickRow" /\ ~ClickedRow.enabled /\ isOpen) =>
        /\ last'.calls = <<>>
        /\ ClickedMenu.visibility = "visible" =>
            (doc' = <<>> /\ ~isOpen' /\ listeners' = {})
        /\ listeners = {} =>
            (doc' = doc /\ isOpen' /\ listeners' = listeners)]_vars

C3_Witness ==
    /\ last.op = "clickRow"
    /\ last.calls = <<>>
    /\ last.preOpen
    /\ Len(last.preDoc) = 1
    /\ doc = <<>>
    /\ ~isOpen

\* The enabled flag of item k in the config of element e.
EnabledOf(e, k) == Deref(heap, k, cfgs[ctxMenu[e]].menu[k]).enabled

\* The enabled flag normalization gives item k of the menu as the caller
\* wrote it.
OrigEnabled(k) ==
    normalizeEntry([id \in {<<0, k>>} |-> origMenu[k].rec], k, origMenu[k].v).enabled

\* C4: when elements hold the config of one attach call, enable/disable
\* addressed to some of them never changes the enabled flag of any item in
\* the config of one that was not addressed.
C4_SameCallIndependent ==
    [][last'.op \in {"enable", "disable"} =>
        \A a \in Range(last'.els), b \in Elems \ Range(last'.els) :
            (ctxMenu[a] # 0 /\ ctxMenu[b] = ctxMenu[a]) =>
                \A k \in Keys : EnabledOf(b, k)' = EnabledOf(b, k)]_vars

\* C5: for elements attached by separate attach calls that pass the same
\* menu object, disabling an item via one element never makes it disabled
\* for another: an attach while another element is attached gives the
\* attached elements an enabled item wherever the menu as the caller wrote
\* it has one, and enable/disable addressed to other elements, holding
\* another config, leaves an element's flags unchanged.
C5_SeparateCallsIndependent ==
    [][/\ last'.op = "attach" =>
            \A e \in Range(last'.els) :
                (\E a \in Elems \ Range(last'.els) : ctxMenu[a] # 0) =>
                    \A k \in Keys : OrigEnabled(k) => EnabledOf(e, k)'
       /\ last'.op \in {"enable", "disable"} =>
            \A b \in Elems \ Range(last'.els) :
                (ctxMenu[b] # 0 /\ \A a \in Range(last'.els) : ctxMenu[a] # ctxMenu[b]) =>
                    \A k \in Keys : EnabledOf(b, k)' = EnabledOf(b, k)]_vars

\* C6: close() raises no error and leaves the controller Closed, with no
\* container in the document and no dismissal listener registered, from
\* any state; and called when already Closed it changes nothing.
C6_CloseIdempotent ==
    [][last'.op = "close" =>
        /\ last'.err = None
        /\ ~isOpen' /\ doc' = <<>> /\ listeners' = {}
        /\ ~isOpen =>
            UNCHANGED <<srcMenu, heap, cfgs, ctxMenu, bound, isOpen, target,
                        doc, menus, listeners, pending>>]_vars

\* C7 as claimed: in every state where isOpen is true, a click, a resize, a
\* scroll and close() each leave isOpen false, and a trigger event has
\* isOpen false and the document empty after the first statements of its
\* handler.
C7_OpenAlwaysDismissed ==
    [][isOpen =>
        /\ last'.op \in {"click", "resize", "scroll", "clickRow", "close"} => ~isOpen'
        /\ last'.op = "trigger" => (~last'.midOpen /\ last'.midDoc = <<>>)]_vars

\* C7 as amended: in every state where isOpen is true and the deferred tick
\* has registered the dismissal listeners, a click, a resize and a scroll
\* each leave isOpen false; close() does so in every state where isOpen is
\* true, with or without listeners; and a trigger event has isOpen false
\* and the document empty after the first statements of its handler.
C7_RevealedDismissed ==
    [][isOpen =>
        /\ (last'.op \in {"click", "resize", "scroll", "clickRow"}
                /\ listeners = DismissEvents) => ~isOpen'
        /\ last'.op = "close" => ~isOpen'
        /\ last'.op = "trigger" => (~last'.midOpen /\ last'.midDoc = <<>>)]_vars

C7_Witness ==
    /\ last.op \in {"click", "resize", "scroll"}
    /\ last.preOpen
    /\ ~isOpen
    /\ doc = <<>>

\* C8: a selection callback that synchronously opens a new menu finds the
\* prior menu closed when it starts (isOpen() false, no container in the
\* document), and the menu it opens is open when the selection has been
\* handled.
C8_ReentrantSelect ==
    (last.op = "clickRow" /\ last.calls # <<>> /\ last.calls[1].fn = "fOpen") =>
        /\ ~last.obsOpen
        /\ last.obsDoc = <<>>
        /\ isOpen
        /\ Len(doc) = 1
        /\ menus[doc[1]].target = ReentrantTarget

\* The normalized item object of key k, once attach has normalized M.
NormItem(k) == Deref(heap, k, srcMenu[k])

\* Whether the caller's entry for k supplies property f, and its value.
Supplies(k, f) ==
    \/ origMenu[k].v.tag = "fn" /\ f = "onSelect"
    \/ origMenu[k].v.tag = "obj" /\ f \in DOMAIN origMenu[k].rec

Supplied(k, f) ==
    IF origMenu[k].v.tag = "fn" THEN origMenu[k].v.fn ELSE origMenu[k].rec[f]

\* Every normalized item has the given label default where the entry
\* supplied no label, and otherwise is fully populated.
NormalizedWith(labelDefault(_)) ==
    ctxMenu["e1"] # 0 =>
        \A k \in Keys :
            /\ {"label", "enabled", "onSelect", "title"} \subseteq DOMAIN NormItem(k)
            /\ NormItem(k).enabled \in BOOLEAN
            /\ NormItem(k).onSelect \in CallerFns \cup {NoopFn}
            /\ NormItem(k).enabled =
                IF Supplies(k, "enabled") THEN Supplied(k, "enabled") ELSE TRUE
            /\ NormItem(k).title =
                IF Supplies(k, "title") THEN Supplied(k, "title") ELSE ""
            /\ NormItem(k).onSelect =
                IF Supplies(k, "onSelect") THEN Supplied(k, "onSelect") ELSE NoopFn
            /\ NormItem(k).label =
                IF Supplies(k, "label") THEN Supplied(k, "label") ELSE labelDefault(k)

LabelIsKey(k) == k
LabelIsKeyUnlessRecord(k) == IF origMenu[k].v.tag = "obj" THEN "" ELSE k

\* C9 as claimed: after normalization every entry has a label, a boolean
\* enabled and a callable onSelect, what the entry supplied is kept, and
\* the defaults enabled=true, label=key, title="" and a no-op onSelect
\* fill in what it did not supply.
C9_NormalizedLabelKey == NormalizedWith(LabelIsKey)

\* C9 as amended: the same, except that the label default is the key only
\* for a callback or a falsy entry; an option record that supplies no label
\* gets the label "".
C9_Normalized == NormalizedWith(LabelIsKeyUnlessRecord)

C9_Witness ==
    /\ ctxMenu["e1"] # 0
    /\ \E k \in Keys :
        /\ origMenu[k].v.tag = "obj"
        /\ ~Supplies(k, "label")
        /\ NormItem(k).label = ""
    /\ \E k \in Keys :
        /\ origMenu[k].v.tag = "fn"
        /\ NormItem(k).label = k

\* The rows built from falsy entries, in the container in the document.
FalsyRows ==
    {r \in Range(menus[doc[1]].rows) : origMenu[r.key].v.tag = "falsy"}

\* C10 as claimed: a falsy entry is normalized to a disabled item whose
\* label is the key, and its row has the disabled class and no selection
\* handler.
C10_FalsyDisabled ==
    /\ ctxMenu["e1"] # 0 =>
        \A k \in Keys : origMenu[k].v.tag = "falsy" =>
            (~NormItem(k).enabled /\ NormItem(k).label = k)
    /\ doc # <<>> =>
        \A r \in FalsyRows :
            (r.className = itemClassNameDisabled /\ ~r.click /\ r.innerHTML = r.key)

\* C10 as amended: a falsy entry is normalized to an enabled item whose
\* label is the key and whose onSelect is the no-op; its row has the
\* enabled class, the key as text, and a selection handler that calls the
\* no-op.
C10_FalsyEnabled ==
    /\ ctxMenu["e1"] # 0 =>
        \A k \in Keys : origMenu[k].v.tag = "falsy" =>
            (NormItem(k).enabled /\ NormItem(k).label = k
                /\ NormItem(k).onSelect = NoopFn)
    /\ doc # <<>> =>
        \A r \in FalsyRows :
            (r.className = itemClassName /\ r.click /\ r.onSelect = NoopFn
                /\ r.innerHTML = r.key)

C10_Witness ==
    /\ doc # <<>>
    /\ \E r \in FalsyRows : r.click /\ r.className = itemClassName

\* What the caller reads in M[k]: a falsy value, a function, or an object
\* with its properties.
CallerValue(menu, h, k) ==
    IF menu[k].tag = "obj"
    THEN [tag |-> "obj", fn |-> None, rec |-> Deref(h, k, menu[k])]
    ELSE [tag |-> menu[k].tag, fn |-> menu[k].fn, rec |-> EmptyObj]

\* M[k] as the caller wrote it.
WrittenValue(k) ==
    [tag |-> origMenu[k].v.tag, fn |-> origMenu[k].v.fn, rec |-> origMenu[k].rec]

\* C11: attach works on a copy of the caller's menu definition: in every
\* state, after any attach, enable and disable calls, the caller's object M
\* has the keys it was written with and every entry has the value it was
\* written with.
C11_CallerMenuUnchanged ==
    /\ DOMAIN srcMenu = Keys
    /\ \A k \in Keys : CallerValue(srcMenu, heap, k) = WrittenValue(k)

\* The config, the event and the measurements the last tick positioned its
\* menu with, and the menu.
PlacedCfg == cfgs[ctxMenu[target]]
PlacedMenu == menus[last.menu]
Placed == last.op = "tick" /\ last.err = None

\* The position the anchor formulas give.
FormulaPosition ==
    LET tb == last.geo.targetBox
        mb == last.geo.menuBox
        h == PlacedCfg.horizontalOffset
        v == PlacedCfg.verticalOffset
        mode == PlacedCfg.position
    IN  CASE mode = "bottom" -> <<tb.left + h, tb.top + tb.height + v>>
          [] mode = "top" -> <<tb.left + h, tb.top - mb.height + v>>
          [] mode = "right" -> <<tb.left + tb.width + h, tb.top + v>>
          [] mode = "left" -> <<tb.left - mb.width + h, tb.top + v>>
          [] OTHER -> <<last.evt.clientX + h, last.evt.clientY + v>>

\* No edge of the viewport is violated by a menu at position pos.
InsideViewport(pos) ==
    /\ 0 <= pos[1]
    /\ pos[1] + last.geo.menuBox.width <= last.geo.body.clientWidth
    /\ 0 <= pos[2]
    /\ pos[2] + last.geo.menuBox.height <= last.geo.body.clientHeight

\* C12: whenever the position the anchor formulas give (bottom, top, right,
\* left; the pointer for "click" and for any unrecognized or falsy mode)
\* violates no viewport edge, it is the position written to the menu; a
\* target at {left 100, top 50, width 80, height 20} with a menu of 60x40,
\* anchor bottom, zero offsets and a viewport of 1000x800 gives (100, 70).
C12_AnchorFormula ==
    Placed =>
        /\ InsideViewport(FormulaPosition) =>
            /\ PlacedMenu.left = <<FormulaPosition[1], "px">>
            /\ PlacedMenu.top = <<FormulaPosition[2], "px">>
        /\ (/\ last.geo = MidMeasure
            /\ PlacedCfg.position = "bottom"
            /\ PlacedCfg.horizontalOffset = 0
            /\ PlacedCfg.verticalOffset = 0) =>
            (PlacedMenu.left = <<100, "px">> /\ PlacedMenu.top = <<70, "px">>)

C12_Witness ==
    /\ Placed
    /\ last.geo = MidMeasure
    /\ PlacedCfg.position = "right"
    /\ PlacedCfg.horizontalOffset = 1
    /\ PlacedCfg.verticalOffset = -1
    /\ PlacedMenu.left = <<181, "px">>
    /\ PlacedMenu.top = <<49, "px">>

\* The numbers of one dimension of the last placement: the candidate edge
\* the anchor formula gives, the offset, the menu's size, the viewport's
\* size and the edge written to the menu.
Horizontal ==
    [cand |-> FormulaPosition[1], offset |-> PlacedCfg.horizontalOffset,
     size |-> last.geo.menuBox.width, client |-> last.geo.body.clientWidth,
     edge |-> PlacedMenu.left]
Vertical ==
    [cand |-> FormulaPosition[2], offset |-> PlacedCfg.verticalOffset,
     size |-> last.geo.menuBox.height, client |-> last.geo.body.clientHeight,
     edge |-> PlacedMenu.top]

\* The menu lies inside the viewport in dimension d.
Contained(d) ==
    /\ d.edge[2] = "px"
    /\ 0 <= d.edge[1]
    /\ d.edge[1] + d.size <= d.client

\* The trailing clamp and the containment, which C13 as claimed and as
\* amended share: with a non-negative offset, a candidate edge that puts
\* the menu beyond the viewport's far edge gives viewport - menu size; and
\* a menu no larger than the viewport, with a non-negative offset no larger
\* than the free space, lies inside the viewport.  With a target at left
\* 970, a menu 60 wide, a viewport 1000 wide and offset 0 the left is 940.
ClampedTrailing(d) ==
    /\ (d.offset >= 0 /\ d.cand + d.size > d.client) =>
            d.edge = <<d.client - d.size, "px">>
    /\ (d.size <= d.client /\ 0 <= d.offset /\ d.offset <= d.client - d.size) =>
            Contained(d)

EdgeExample ==
    (/\ last.geo = EdgeMeasure
     /\ PlacedCfg.position = "bottom"
     /\ PlacedCfg.horizontalOffset = 0) => PlacedMenu.left = <<940, "px">>

\* C13 as claimed: with a non-negative offset, a negative candidate edge
\* gives the offset as the result (stated here only for a menu no larger
\* than the viewport); together with the trailing clamp, the containment
\* and the example.
C13_SnapsToOffset ==
    Placed =>
        /\ \A d \in {Horizontal, Vertical} :
            /\ (d.offset >= 0 /\ d.cand < 0 /\ d.size <= d.client) =>
                    d.edge = <<d.offset, "px">>
            /\ ClampedTrailing(d)
        /\ EdgeExample

\* C13 as amended: with a non-negative offset, a negative candidate edge
\* gives the offset as the result when the menu placed at the offset ends
\* within the viewport (offset + menu size <= viewport size); otherwise
\* the trailing clamp applies to the snapped edge and the result is
\* viewport - menu size.  The trailing clamp, the containment and the
\* example are as claimed.
C13_SnapsThenClamps ==
    Placed =>
        /\ \A d \in {Horizontal, Vertical} :
            /\ (d.offset >= 0 /\ d.cand < 0) =>
                    d.edge = IF d.offset + d.size <= d.client
                             THEN <<d.offset, "px">>
                             ELSE <<d.client - d.size, "px">>
            /\ ClampedTrailing(d)
        /\ EdgeExample

C13_Witness ==
    /\ Placed
    /\ Horizontal.offset = 1 /\ Horizontal.cand < 0
    /\ Horizontal.edge = <<1, "px">>
    /\ Vertical.offset = 0 /\ Vertical.cand + Vertical.size > Vertical.client
    /\ Vertical.size = 2
    /\ Vertical.edge = <<2, "px">>

\* The deferred tick a display call has just queued, the config it gave
\* its element, and the position before the off-screen checks that the
\* tick computes when the boxes measure geo.
QueuedTick == pending[Len(pending)]
DisplayedCfg == cfgs[ctxMenu[QueuedTick.e.target]]
QueuedPosition(geo) == anchorPosition(QueuedTick.e, DisplayedCfg, geo)

\* The position at the top-left corner of the box display measured, plus
\* the offsets.
BoxCorner ==
    [left |-> last.box.left + DisplayedCfg.horizontalOffset,
     top |-> last.box.top + DisplayedCfg.verticalOffset]

\* C14 as claimed: display(element, menu, options) with no position among
\* the options places the menu pointer-style at the top-left corner of the
\* element's bounding box: whatever the boxes measure when the tick runs,
\* the position before clamping is (box.left + hOffset, box.top + vOffset).
C14_DisplayAtBoxCorner ==
    [][(last'.op = "display" /\ "position" \notin DOMAIN last'.opts) =>
        \A geo \in Measures : QueuedPosition(geo)' = BoxCorner']_vars

\* C14 as amended: display with no position among the options places the
\* menu with conf's default anchor, bottom: the position before clamping is
\* (targetLeft + hOffset, targetBottom + vOffset) of the box the element
\* measures when the tick runs.  The placement is pointer-style at the
\* top-left corner of the box display measured only when the options set
\* position to "click", to an unrecognized mode or to a falsy value.
C14_DisplayBelowElement ==
    [][last'.op = "display" =>
        \A geo \in Measures :
            /\ "position" \notin DOMAIN last'.opts =>
                    QueuedPosition(geo)' =
                        [left |-> geo.targetBox.left + DisplayedCfg'.horizontalOffset,
                         top |-> geo.targetBox.top + geo.targetBox.height
                                    + DisplayedCfg'.verticalOffset]
            /\ ("position" \in DOMAIN last'.opts
                    /\ last'.opts.position \notin {"bottom", "top", "right", "left"}) =>
                    QueuedPosition(geo)' = BoxCorner']_vars

C14_Witness ==
    /\ last.op = "display"
    /\ "position" \notin DOMAIN last.opts
    /\ last.box.left = 3 /\ last.box.top = 3
    /\ pending # <<>>
    /\ QueuedTick.e = [target |-> "e2", clientX |-> 3, clientY |-> 3]
    /\ DisplayedCfg.position = "bottom"
    /\ DisplayedCfg.horizontalOffset = 1

\* C15: display leaves no binding behind: whenever no menu is in the
\* document (every menu display opened has been closed), an element has an
\* association only if attach gave it one, and the association is not a
\* config that display built; so a trigger on an attached element opens
\* the attached menu.
C15_DisplayLeavesNoBinding ==
    doc = <<>> =>
        \A e \in Elems :
            ctxMenu[e] # 0 =>
                /\ bound[e]
                /\ cfgs[ctxMenu[e]].data # DisplayOptions.data

\* The rows of container m agree with the enabled flags of the config of
\* element e: class, and presence of a selection handler.
RowsReflect(m, e) ==
    \A i \in 1..Len(menus[m].rows) :
        LET r == menus[m].rows[i]
        IN  /\ r.enabled = EnabledOf(e, r.key)
            /\ r.className =
                IF EnabledOf(e, r.key) THEN itemClassName ELSE itemClassNameDisabled
            /\ r.click = EnabledOf(e, r.key)

\* The rows of the menu the last trigger built agree with the flags of its
\* target's config.
BuiltRowsReflect == RowsReflect(last.menu, last.els[1])

\* C16: enable/disable called while a menu is open changes neither the
\* document nor the open menu (each row keeps its class and its selection
\* handler, or its lack of one); the flags as they are now show in the menu
\* the next trigger on the element builds.
C16_OpenMenuIsSnapshot ==
    [][/\ last'.op \in {"enable", "disable"} =>
            /\ doc' = doc
            /\ isOpen' = isOpen
            /\ \A m \in Range(doc) : menus'[m] = menus[m]
       /\ (last'.op = "trigger" /\ last'.menu # 0) =>
            BuiltRowsReflect']_vars

C16_Witness ==
    /\ last.op = "disable"
    /\ last.err = None
    /\ isOpen
    /\ Len(doc) = 1
    /\ \E i \in 1..Len(menus[doc[1]].rows) :
        LET r == menus[doc[1]].rows[i]
        IN  /\ r.key = last.key
            /\ r.click
            /\ r.className = itemClassName
            /\ ~EnabledOf("e1", r.key)

\* The last enable/disable call named a key that is in the menu definition
\* of none of the elements it addressed, each of which has a definition.
\* (Evaluated across a step: the state before, the call after.)
UnknownKeyCall ==
    /\ last'.op \in {"enable", "disable"}
    /\ last'.els # <<>>
    /\ \A e \in Range(last'.els) :
            ctxMenu[e] # 0 /\ last'.key \notin DOMAIN cfgs[ctxMenu[e]].menu

\* C17: enable/disable with a key that is not in the menu definition of
\* the addressed elements is a no-op: no error is raised, no entry is added
\* to a definition, no item's enabled flag changes, and nothing else of the
\* program's state changes.
C17_UnknownKeyNoop ==
    [][UnknownKeyCall =>
        /\ last'.err = None
        /\ \A g \in DOMAIN cfgs : DOMAIN cfgs'[g].menu = DOMAIN cfgs[g].menu
        /\ \A e \in Elems, k \in Keys :
                ctxMenu[e] # 0 => EnabledOf(e, k)' = EnabledOf(e, k)
        /\ UNCHANGED <<srcMenu, heap, cfgs, ctxMenu, bound, isOpen, target,
                       doc, menus, listeners, pending>>]_vars

C17_Witness ==
    /\ last.op = "disable"
    /\ last.key = UnknownKey
    /\ last.els = <<"e1", "e2">>
    /\ ctxMenu["e1"] # 0 /\ ctxMenu["e2"] # 0
    /\ ctxMenu["e1"] # ctxMenu["e2"]
    /\ last.err = None
    /\ \E k \in Keys : ~EnabledOf("e1", k)

\* The last step ran the tick of a menu that was no longer in the document.
StaleTick == last'.op = "tick" /\ last'.menu \notin Range(doc)

\* C18: a deferred tick that runs after its menu was closed (by close(), a
\* dismissal event or a later trigger) is a guarded no-op: it raises no
\* error and changes neither isOpen, nor the registered dismissal
\* listeners, nor the containers in the document.
C18_StaleTickNoop ==
    [][StaleTick =>
        /\ last'.err = None
        /\ isOpen' = isOpen
        /\ listeners' = listeners
        /\ doc' = doc]_vars

\* C19: in every reachable state in which the controller is Closed, none
\* of the three dismissal listeners is registered.
C19_ClosedNoListeners ==
    ~isOpen => listeners = {}

\* C20: a negative offset never places the menu off-screen: in a dimension
\* whose offset is negative and in which the menu is no larger than the
\* viewport, the final position has 0 <= edge and edge + menu size <=
\* viewport size, for every anchor mode, target box and pointer.
C20_NegativeOffsetOnScreen ==
    Placed =>
        \A d \in {Horizontal, Vertical} :
            (d.offset < 0 /\ d.size <= d.client) => Contained(d)

\* C21: close() removes every menu container present in the document,
\* however many there are: after one close no element with the menu
\* container class remains.
C21_CloseRemovesAll ==
    [][last'.op = "close" => doc' = <<>>]_vars

\* The names containers can have.
MenuIds == 1..(MaxPending + 2)

\* Container m is in the document and its deferred tick has not run yet;
\* it is in the document, visible and positioned by its tick, with the
\* three dismissal listeners registered.
AwaitingTick(m) ==
    /\ m \in Range(doc)
    /\ \E i \in 1..Len(pending) : pending[i].menu = m
Revealed(m) ==
    /\ m \in Range(doc)
    /\ menus[m].visibility = "visible"
    /\ menus[m].positioned
    /\ menus[m].left[2] = "px" /\ menus[m].top[2] = "px"
    /\ listeners = DismissEvents

\* A trigger or display that has built a menu leaves the controller Open
\* with the new container in the document, hidden and not positioned; and
\* a container whose tick has not run is hidden.
HiddenUntilTick ==
    /\ (last.op \in {"trigger", "display"} /\ last.menu # 0) =>
            /\ isOpen
            /\ doc = <<last.menu>>
            /\ menus[last.menu].visibility = "hidden"
            /\ ~menus[last.menu].positioned
            /\ AwaitingTick(last.menu)
    /\ \A m \in MenuIds :
            AwaitingTick(m) =>
                (menus[m].visibility = "hidden" /\ ~menus[m].positioned)

\* C22: two-phase reveal: a trigger on an associated element makes the
\* controller Open at once with the container inserted but hidden; a menu
\* is never visible before its deferred tick; and, the timer running every
\* tick, a menu that awaits its tick is eventually closed or else visible,
\* positioned, with the three dismissal listeners registered.
C22_TwoPhaseReveal ==
    /\ []HiddenUntilTick
    /\ \A m \in MenuIds :
            AwaitingTick(m) ~> (m \notin Range(doc) \/ Revealed(m))

C22_Witness ==
    /\ last.op = "tick"
    /\ last.err = None
    /\ isOpen
    /\ doc = <<last.menu>>
    /\ Revealed(last.menu)
    /\ last.preOpen
    /\ pending = <<>>

\* C23: isOpen() agrees with the document in every state the library's
\* operations reach: it is true if and only if exactly one menu container
\* is in the document; a trigger whose event target has no config leaves
\* isOpen false and no container, whether or not a menu was open.
C23_OpenIffOneContainer ==
    /\ isOpen <=> Len(doc) = 1
    /\ (last.op = "trigger" /\ last.menu = 0) => (~isOpen /\ doc = <<>>)

C23_Witness ==
    /\ last.op = "trigger"
    /\ last.els = <<"c1">>
    /\ last.menu = 0
    /\ last.preOpen
    /\ Len(last.preDoc) = 1
    /\ ~isOpen
    /\ doc = <<>>

====
